---------------------------- MODULE Spec2Model ----------------------------
(***************************************************************************)
(* KhojDaSearch (src/main.py): the FileIndexer worker thread, the SQLite   *)
(* store "files", the SearchBar query and the KhojDaSearch coordinator.    *)
(*                                                                         *)
(* A string is a tuple of one-character strings, a path a tuple of names.  *)
(***************************************************************************)
EXTENDS Integers, Sequences, FiniteSets, TLC

VARIABLES
    fs,            \* the filesystem the walks read (a key of FileSystem)
    sessions,      \* every FileIndexer created so far, in order of creation
    indexer,       \* KhojDaSearch.indexer: index into sessions, 0 = None
    tableExists,   \* the committed schema holds the table files
    rows,          \* the committed rows of files, in rowid order
    txOwner,       \* the session whose connection holds the write lock, 0 = none
    txRows,        \* the table as txOwner's open transaction sees it
    search_bar,    \* KhojDaSearch.search_bar: the SearchBar widget, or None
    quit,          \* on_quit has run
    firstDone      \* history: the committed rows when the first session completed

vars == <<fs, sessions, indexer, tableExists, rows, txOwner, txRows,
          search_bar, quit, firstDone>>

-----------------------------------------------------------------------------
(* Bounds of the model.                                                    *)

\* FileIndexer objects ever created (application start plus re-index calls)
MaxSessions == 2
\* longest text typed into the search input
MaxFragLen == 2
\* rows of the largest store a query is run against
MaxRows == 102
\* files of the big directory of the large filesystem
LargeFiles == 1500

-----------------------------------------------------------------------------
(* Program constants.                                                      *)

BATCH_SIZE == 500
MIN_TOTAL_FILES == 1000
DEFAULT_TOTAL_FILES == 10000
FILE_SAMPLE_DIRS == 20
DIR_SAMPLE_DIRS == 10
DIR_SCALE == 50
MIN_TOTAL_DIRS == 100
DEFAULT_TOTAL_DIRS == 1000
MAX_RUNNING_PERCENT == 99
DONE_PERCENT == 100
QUERY_LIMIT == 100

-----------------------------------------------------------------------------
(* Characters and strings.                                                 *)

Chars == {" ", "$", "%", ".", "A", "B", "_", "a", "b"}

\* the byte SQLite's BINARY collation compares
Code(c) ==
    CASE c = " " -> 32 [] c = "$" -> 36 [] c = "%" -> 37 [] c = "." -> 46
      [] c = "A" -> 65 [] c = "B" -> 66 [] c = "_" -> 95
      [] c = "a" -> 97 [] c = "b" -> 98 [] OTHER -> 47

\* str.lower() and the ASCII case folding of LIKE
Lower(c) == CASE c = "A" -> "a" [] c = "B" -> "b" [] OTHER -> c

LowerStr(s) == [i \in 1..Len(s) |-> Lower(s[i])]

\* str.startswith(c)
StartsWith(s, c) == Len(s) > 0 /\ s[1] = c

RECURSIVE LStrip(_)
LStrip(s) == IF Len(s) > 0 /\ s[1] = " " THEN LStrip(Tail(s)) ELSE s

RECURSIVE RStrip(_)
RStrip(s) ==
    IF Len(s) > 0 /\ s[Len(s)] = " " THEN RStrip(SubSeq(s, 1, Len(s) - 1)) ELSE s

\* str.strip()
Strip(s) == RStrip(LStrip(s))

\* os.path.splitext(file)[1]: from the last dot on, when a character other
\* than a dot stands before it
SplitExt(name) ==
    LET dots == {i \in 1..Len(name) : name[i] = "."}
        dotIndex == IF dots = {} THEN 0 ELSE CHOOSE i \in dots : \A j \in dots : j <= i
    IN  IF dotIndex > 0 /\ \E k \in 1..(dotIndex - 1) : name[k] # "."
        THEN SubSeq(name, dotIndex, Len(name))
        ELSE <<>>

\* os.path.join(root, file)
JoinPath(root, file) == Append(root, file)

\* datetime.fromtimestamp(st_mtime).strftime('%Y-%m-%d %H:%M:%S'): the
\* fraction of the second is dropped
StrfTime(mtime) == mtime.sec

\* name < other under the BINARY collation (memcmp, the shorter prefix first)
NameLess(a, b) ==
    LET n == IF Len(a) < Len(b) THEN Len(a) ELSE Len(b)
        diff == {i \in 1..n : a[i] # b[i]}
    IN  IF diff = {}
        THEN Len(a) < Len(b)
        ELSE LET i == CHOOSE k \in diff : \A j \in diff : k <= j
             IN  Code(a[i]) < Code(b[i])

\* SQLite's  str LIKE pat : % matches any run of characters, _ any one
\* character, every other character itself up to ASCII case
RECURSIVE LikeMatch(_, _)
LikeMatch(pat, str) ==
    IF pat = <<>> THEN str = <<>>
    ELSE IF Head(pat) = "%"
         THEN LikeMatch(Tail(pat), str)
              \/ (str # <<>> /\ LikeMatch(pat, Tail(str)))
    ELSE IF Head(pat) = "_"
         THEN str # <<>> /\ LikeMatch(Tail(pat), Tail(str))
    ELSE str # <<>> /\ Lower(Head(pat)) = Lower(Head(str))
         /\ LikeMatch(Tail(pat), Tail(str))

-----------------------------------------------------------------------------
(* Filesystems: what os.walk and os.stat read.  A directory lists its      *)
(* subdirectories and files in scandir order; an unreadable directory      *)
(* makes os.walk yield nothing for it; statOk = FALSE makes os.stat raise. *)

File(name, size, sec, frac, ok) ==
    [name |-> name, size |-> size, mtime |-> [sec |-> sec, frac |-> frac], statOk |-> ok]

Dir(path, dirs, files, readable) ==
    [name |-> path[Len(path)], path |-> path, dirs |-> dirs, files |-> files,
     readable |-> readable]

DigitChar(d) == CASE d = 0 -> "a" [] d = 1 -> "A" [] d = 2 -> "b" [] OTHER -> "B"

\* the n-th generated name: n written with width digits in base 4
RECURSIVE DigitName(_, _)
DigitName(n, width) ==
    IF width = 0 THEN <<>>
    ELSE Append(DigitName(n \div 4, width - 1), DigitChar(n % 4))

\* one POSIX root with a hidden file, a hidden and a system directory and a
\* file whose stat fails, listed before a file whose stat succeeds
FsSmall ==
    LET root == << <<"/">> >>
    IN  [drives |-> <<1>>,
         dirs |-> <<
            Dir(root, <<2, 3, 4>>,
                << File(<<"a">>, 3, 10, 5, TRUE),
                   File(<<".", "a">>, 1, 11, 0, TRUE),
                   File(<<"B", ".", "A">>, 0, 12, 9, TRUE) >>, TRUE),
            Dir(Append(root, <<"b">>), <<>>,
                << File(<<"b">>, 2, 14, 0, FALSE),
                   File(<<"a">>, 7, 13, 1, TRUE) >>, TRUE),
            Dir(Append(root, <<".", "b">>), <<>>,
                << File(<<"A">>, 1, 15, 0, TRUE) >>, TRUE),
            Dir(Append(root, <<"$", "a">>), <<>>,
                << File(<<"b">>, 1, 16, 0, TRUE) >>, TRUE) >>]

\* two drive roots, the first one not ready
FsDrives ==
    [drives |-> <<1, 2>>,
     dirs |-> <<
        Dir(<< <<"A", ":">> >>, <<>>, <<>>, FALSE),
        Dir(<< <<"B", ":">> >>, <<>>,
            << File(<<"A", "_", "b">>, 4, 20, 0, TRUE) >>, TRUE) >>]

\* no readable root at all
FsNone ==
    [drives |-> <<1>>,
     dirs |-> << Dir(<< <<"/">> >>, <<>>, <<>>, FALSE) >>]

\* a drive with 21 subdirectories, the last of which holds LargeFiles files,
\* and a second drive with a hidden file and a file whose stat fails
FsLarge ==
    LET c == << <<"A", ":">> >>
    IN  [drives |-> <<1, 23>>,
         dirs |-> [d \in 1..23 |->
            IF d = 1 THEN Dir(c, [i \in 1..21 |-> i + 1], <<>>, TRUE)
            ELSE IF d = 23
                 THEN Dir(<< <<"B", ":">> >>, <<>>,
                          << File(<<".", "a">>, 1, 50, 0, TRUE),
                             File(<<"a", ".", "B">>, 2, 51, 0, FALSE) >>, TRUE)
            ELSE Dir(Append(c, DigitName(d, 3)), <<>>,
                     IF d = 22
                     THEN [i \in 1..LargeFiles |->
                             File(DigitName(i, 6), i % 7, 100 + i, i % 3, TRUE)]
                     ELSE <<>>, TRUE)]]

\* a readable root that holds nothing
FsEmpty ==
    [drives |-> <<1>>,
     dirs |-> << Dir(<< <<"/">> >>, <<>>, <<>>, TRUE) >>]

\* a root with seven files and three subdirectories that cannot be listed
FsWide ==
    LET root == << <<"/">> >>
    IN  [drives |-> <<1>>,
         dirs |-> <<
            Dir(root, <<2, 3, 4>>,
                [i \in 1..7 |-> File(DigitName(i, 2), i, 30 + i, 0, TRUE)], TRUE),
            Dir(Append(root, <<"a">>), <<>>, <<>>, FALSE),
            Dir(Append(root, <<"b">>), <<>>, <<>>, FALSE),
            Dir(Append(root, <<"B">>), <<>>, <<>>, FALSE) >>]

FileSystem(key) ==
    CASE key = "small" -> FsSmall
      [] key = "drives" -> FsDrives
      [] key = "none" -> FsNone
      [] key = "large" -> FsLarge
      [] key = "empty" -> FsEmpty
      [] key = "wide" -> FsWide

SmallFileSystems == {"small", "drives", "none"}

-----------------------------------------------------------------------------
(* The store: the table files of search_index.db.                          *)

Row(id, name, path, type, size, modified_date) ==
    [id |-> id, name |-> name, path |-> path, type |-> type, size |-> size,
     modified_date |-> modified_date]

\* the largest rowid of the table (rows are kept in rowid order)
MaxId(tbl) == IF tbl = <<>> THEN 0 ELSE tbl[Len(tbl)].id

\* a plain INSERT into a table without UNIQUE(path)
InsertOnly(tbl, name, path, type, size, modified_date) ==
    Append(tbl, Row(MaxId(tbl) + 1, name, path, type, size, modified_date))

\* INSERT OR REPLACE INTO files (name, path, type, size, modified_date): the
\* new row takes the next rowid and the row that holds the path is deleted
InsertOrReplace(tbl, name, path, type, size, modified_date) ==
    Append(SelectSeq(tbl, LAMBDA r : r.path # path),
           Row(MaxId(tbl) + 1, name, path, type, size, modified_date))

\* the name, path, type, size and modified_date of a row
Fields(r) == <<r.name, r.path, r.type, r.size, r.modified_date>>

\* what a connection other than the writer's reads, and what the writer reads
TableSeenBy(i) == IF txOwner = i THEN txRows ELSE rows

-----------------------------------------------------------------------------
(* FileIndexer.                                                            *)

NoStop == [pc |-> "none", n |-> 0, dirs |-> 0, drives |-> 0, sampled |-> 0]

\* FileIndexer.__init__ and start_indexing's choice of finished handler
NewIndexer(show_search) ==
    [pc |-> "start", stopped |-> FALSE, total_files_estimated |-> 0,
     files_processed |-> 0, show_search |-> show_search,
     drive |-> 0, todo |-> <<>>, cur |-> 0, file |-> 0,
     sample_size |-> 0, file_count |-> 0, dir_sample_size |-> 0, dir_count |-> 0,
     events |-> <<>>, finished |-> "no",
     \* the exception run ended with, "none" when it returned
     exception |-> "none",
     \* history of the run, read by the properties only
     cancelled |-> FALSE, upserts |-> 0, dirsEntered |-> 0, drivesEntered |-> 0,
     sampled |-> 0, atStop |-> NoStop, sinceStop |-> 0]

Min(a, b) == IF a < b THEN a ELSE b
Max(a, b) == IF a > b THEN a ELSE b

\* _get_percentage written without the cap
GetPercentageUncapped(s) ==
    IF s.total_files_estimated <= 0 THEN 0
    ELSE (s.files_processed * 100) \div s.total_files_estimated

\* _get_percentage with the operands of the division exchanged
GetPercentageSwapped(s) ==
    IF s.total_files_estimated <= 0 \/ s.files_processed = 0 THEN 0
    ELSE Min(MAX_RUNNING_PERCENT, (s.total_files_estimated * 100) \div s.files_processed)

\* _get_percentage.  int() of the double product is taken as the exact floor;
\* the double rounding is monotone in files_processed and moves the result by
\* at most one.
GetPercentage(s) ==
    IF s.total_files_estimated <= 0 THEN 0
    ELSE Min(MAX_RUNNING_PERCENT, (s.files_processed * 100) \div s.total_files_estimated)

\* progress_signal.emit(message, percentage); n is files_processed at the emit
Emit(s, kind, pct) ==
    [s EXCEPT !.events = Append(@, [kind |-> kind, n |-> s.files_processed, pct |-> pct])]

\* dirs[:] left as os.walk listed it
DirsUnfiltered(f, dirs) == dirs

\* the filter of hidden and system directories
DirsFiltered(f, dirs) ==
    SelectSeq(dirs, LAMBDA d : ~StartsWith(f.dirs[d].name, ".")
                               /\ ~StartsWith(f.dirs[d].name, "$"))

\* os.walk resumed: directories whose scandir fails are passed over silently
RECURSIVE WalkNext(_, _)
WalkNext(f, todo) ==
    IF todo = <<>> THEN <<>>
    ELSE IF f.dirs[Head(todo)].readable THEN todo
    ELSE WalkNext(f, Tail(todo))

\* the files of a directory that do not start with a dot
VisibleCount(files) == Cardinality({k \in 1..Len(files) : ~StartsWith(files[k].name, ".")})

\* one step of a session counts as a step taken after stop() when stopped
Tick(old, new) == [new EXCEPT !.sinceStop = IF old.stopped THEN @ + 1 ELSE @]

Running(s) == s.pc \notin {"start", "done", "failed"}
\* QThread.isRunning()
IsRunning(s) == s.pc \notin {"done", "failed"}
Estimating(s) == s.pc \in {"estimate_files", "estimate_dirs"}
Walking(s) == s.pc \in {"drives", "walk", "files", "stat"}

\* the three cooperative check-points of run: per root, per directory, per file
DriveLoopStopped(s) == s.stopped
WalkLoopStopped(s) == s.stopped
FileLoopStoppedNever(s) == FALSE
FileLoopStopped(s) == s.stopped

\* os.path.splitext(file)[1].lower()
FileType(name) == LowerStr(SplitExt(name))

FirstWalk(f, d) == IF d <= Len(f.drives) THEN <<f.drives[d]>> ELSE <<>>

\* line 211 and line 94: the estimate is announced and the counter reset
StartWalking(s) ==
    LET e == Emit(s, "estimated", 0)
    IN  [e EXCEPT !.files_processed = 0, !.pc = "drives", !.drive = 1, !.todo = <<>>,
                  !.sample_size = 0, !.file_count = 0,
                  !.dir_sample_size = 0, !.dir_count = 0]

\* _estimate_dir_count, after its loops
TotalDirsEstimated(s) ==
    IF s.dir_sample_size > 0
    THEN Max(MIN_TOTAL_DIRS, (s.dir_count * DIR_SCALE) \div Max(1, s.dir_sample_size))
    ELSE DEFAULT_TOTAL_DIRS

\* line 206 written without max(1000, ...)
AfterDirSamplingNoFloor(s) ==
    StartWalking([s EXCEPT !.total_files_estimated =
        (s.file_count * TotalDirsEstimated(s)) \div Max(1, s.sample_size)])

\* _estimate_total_files, after _estimate_dir_count has returned
AfterDirSampling(s) ==
    StartWalking([s EXCEPT !.total_files_estimated =
        Max(MIN_TOTAL_FILES, (s.file_count * TotalDirsEstimated(s)) \div Max(1, s.sample_size))])

\* _estimate_total_files, after its loops
AfterFileSampling(f, s) ==
    IF s.sample_size > 0
    THEN [s EXCEPT !.pc = "estimate_dirs", !.drive = 1, !.todo = FirstWalk(f, 1),
                   !.dir_sample_size = 0, !.dir_count = 0]
    ELSE StartWalking([s EXCEPT !.total_files_estimated = DEFAULT_TOTAL_FILES])

SetSession(i, s) == sessions' = [sessions EXCEPT ![i] = Tick(sessions[i], s)]

\* run, lines 69-90, with the table dropped and created again
RunOpenRecreating(i) ==
    /\ i \in 1..Len(sessions)
    /\ sessions[i].pc = "start"
    /\ tableExists' = TRUE
    /\ rows' = <<>>
    /\ SetSession(i, Emit([sessions[i] EXCEPT !.pc = "estimate_files", !.drive = 1,
                                              !.todo = FirstWalk(FileSystem(fs), 1)],
                          "estimating", 0))
    /\ UNCHANGED <<fs, indexer, txOwner, txRows, search_bar, quit, firstDone>>

\* run, lines 69-90: connect, create the table, commit, announce the estimation
RunOpen(i) ==
    /\ i \in 1..Len(sessions)
    /\ sessions[i].pc = "start"
    /\ tableExists' = TRUE
    /\ SetSession(i, Emit([sessions[i] EXCEPT !.pc = "estimate_files", !.drive = 1,
                                              !.todo = FirstWalk(FileSystem(fs), 1)],
                          "estimating", 0))
    /\ UNCHANGED <<fs, indexer, rows, txOwner, txRows, search_bar, quit, firstDone>>

\* run, line 69: sqlite3.connect raises (the database file cannot be opened or
\* created).  Nothing in run or in its caller catches the exception: run ends
\* with it, before the first emit and without the finished signal.
RunOpenFail(i) ==
    /\ i \in 1..Len(sessions)
    /\ sessions[i].pc = "start"
    /\ SetSession(i, [sessions[i] EXCEPT !.pc = "failed", !.exception = "connect"])
    /\ UNCHANGED <<fs, indexer, tableExists, rows, txOwner, txRows, search_bar, quit,
                   firstDone>>

\* _estimate_total_files, lines 179-199: one directory of the sample, or the
\* passage to the next root
EstimateFiles(i) ==
    /\ i \in 1..Len(sessions)
    /\ sessions[i].pc = "estimate_files"
    /\ LET s == sessions[i]
           f == FileSystem(fs)
           t == WalkNext(f, s.todo)
       IN  IF t = <<>>
           THEN IF s.drive < Len(f.drives)
                THEN SetSession(i, [s EXCEPT !.drive = @ + 1,
                                             !.todo = FirstWalk(f, s.drive + 1)])
                ELSE SetSession(i, AfterFileSampling(f, s))
           ELSE LET d == f.dirs[Head(t)]
                    n == [s EXCEPT !.todo = DirsFiltered(f, d.dirs) \o Tail(t),
                                   !.file_count = @ + VisibleCount(d.files),
                                   !.sample_size = @ + 1, !.sampled = @ + 1]
                IN  IF n.sample_size >= FILE_SAMPLE_DIRS
                    THEN SetSession(i, AfterFileSampling(f, n))
                    ELSE SetSession(i, n)
    /\ UNCHANGED <<fs, indexer, tableExists, rows, txOwner, txRows, search_bar, quit,
                   firstDone>>

\* _estimate_dir_count, lines 219-239
EstimateDirs(i) ==
    /\ i \in 1..Len(sessions)
    /\ sessions[i].pc = "estimate_dirs"
    /\ LET s == sessions[i]
           f == FileSystem(fs)
           t == WalkNext(f, s.todo)
       IN  IF t = <<>>
           THEN IF s.drive < Len(f.drives)
                THEN SetSession(i, [s EXCEPT !.drive = @ + 1,
                                             !.todo = FirstWalk(f, s.drive + 1)])
                ELSE SetSession(i, AfterDirSampling(s))
           ELSE LET d == f.dirs[Head(t)]
                    kept == DirsFiltered(f, d.dirs)
                    n == [s EXCEPT !.todo = kept \o Tail(t),
                                   !.dir_count = @ + Len(kept),
                                   !.dir_sample_size = @ + 1, !.sampled = @ + 1]
                IN  IF n.dir_sample_size >= DIR_SAMPLE_DIRS
                    THEN SetSession(i, AfterDirSampling(n))
                    ELSE SetSession(i, n)
    /\ UNCHANGED <<fs, indexer, tableExists, rows, txOwner, txRows, search_bar, quit,
                   firstDone>>

\* run, lines 96-101: the next root, unless stopped
DriveStep(i) ==
    /\ i \in 1..Len(sessions)
    /\ sessions[i].pc = "drives"
    /\ LET s == sessions[i]
           f == FileSystem(fs)
       IN  IF s.drive > Len(f.drives)
           THEN SetSession(i, [s EXCEPT !.pc = "finish"])
           ELSE IF DriveLoopStopped(s)
           THEN SetSession(i, [s EXCEPT !.pc = "finish", !.cancelled = TRUE])
           ELSE SetSession(i, [Emit(s, "indexing", GetPercentage(s))
                                 EXCEPT !.pc = "walk", !.todo = FirstWalk(f, s.drive),
                                        !.drivesEntered = @ + 1])
    /\ UNCHANGED <<fs, indexer, tableExists, rows, txOwner, txRows, search_bar, quit,
                   firstDone>>

\* run, lines 104-110: the next directory of os.walk, unless stopped
WalkStep(i) ==
    /\ i \in 1..Len(sessions)
    /\ sessions[i].pc = "walk"
    /\ LET s == sessions[i]
           f == FileSystem(fs)
           t == WalkNext(f, s.todo)
       IN  IF t = <<>>
           THEN SetSession(i, [s EXCEPT !.pc = "drives", !.drive = @ + 1, !.todo = <<>>])
           ELSE IF WalkLoopStopped(s)
           THEN SetSession(i, [s EXCEPT !.pc = "drives", !.drive = @ + 1, !.todo = <<>>,
                                        !.cancelled = TRUE])
           ELSE SetSession(i, [s EXCEPT !.pc = "files", !.cur = Head(t), !.file = 1,
                                        !.todo = DirsFiltered(f, f.dirs[Head(t)].dirs)
                                                 \o Tail(t),
                                        !.dirsEntered = @ + 1])
    /\ UNCHANGED <<fs, indexer, tableExists, rows, txOwner, txRows, search_bar, quit,
                   firstDone>>

\* run, lines 112-118: the next file of the directory, unless stopped or hidden
FileStep(i) ==
    /\ i \in 1..Len(sessions)
    /\ sessions[i].pc = "files"
    /\ LET s == sessions[i]
           files == FileSystem(fs).dirs[s.cur].files
       IN  IF s.file > Len(files)
           THEN SetSession(i, [s EXCEPT !.pc = "walk"])
           ELSE IF FileLoopStopped(s)
           THEN SetSession(i, [s EXCEPT !.pc = "walk", !.cancelled = TRUE])
           ELSE IF StartsWith(files[s.file].name, ".")
           THEN SetSession(i, [s EXCEPT !.file = @ + 1])
           ELSE SetSession(i, [s EXCEPT !.pc = "stat"])
    /\ UNCHANGED <<fs, indexer, tableExists, rows, txOwner, txRows, search_bar, quit,
                   firstDone>>

\* line 133 written so that a count above the estimate raises the estimate
CountedCorrecting(s) ==
    [s EXCEPT !.files_processed = @ + 1,
              !.total_files_estimated = Max(@, s.files_processed + 1)]

\* line 133: self.files_processed += 1
Counted(s) == [s EXCEPT !.files_processed = @ + 1]

\* line 135 written so that every upsert is committed
BatchFullAlways(s) == TRUE

\* line 135: self.files_processed % 500 == 0
BatchFull(s) == s.files_processed % BATCH_SIZE = 0

\* run without the inner try: the failure of os.stat reaches the except clause
\* of line 145 and the rest of the root is left out
StatFailAborting(i) ==
    /\ i \in 1..Len(sessions)
    /\ sessions[i].pc = "stat"
    /\ LET s == sessions[i]
       IN  /\ ~FileSystem(fs).dirs[s.cur].files[s.file].statOk
           /\ SetSession(i, [s EXCEPT !.pc = "drives", !.drive = @ + 1, !.todo = <<>>])
    /\ UNCHANGED <<fs, indexer, tableExists, rows, txOwner, txRows, search_bar, quit,
                   firstDone>>

\* run with the increment of line 133 moved before os.stat
StatFailCounting(i) ==
    /\ i \in 1..Len(sessions)
    /\ sessions[i].pc = "stat"
    /\ LET s == sessions[i]
       IN  /\ ~FileSystem(fs).dirs[s.cur].files[s.file].statOk
           /\ SetSession(i, [Counted(s) EXCEPT !.pc = "files", !.file = @ + 1])
    /\ UNCHANGED <<fs, indexer, tableExists, rows, txOwner, txRows, search_bar, quit,
                   firstDone>>

\* run, lines 120-122 and 143-144: os.stat raises, the file is passed over
StatFail(i) ==
    /\ i \in 1..Len(sessions)
    /\ sessions[i].pc = "stat"
    /\ LET s == sessions[i]
       IN  /\ ~FileSystem(fs).dirs[s.cur].files[s.file].statOk
           /\ SetSession(i, [s EXCEPT !.pc = "files", !.file = @ + 1])
    /\ UNCHANGED <<fs, indexer, tableExists, rows, txOwner, txRows, search_bar, quit,
                   firstDone>>

\* run, lines 120-141: stat, upsert, count, and every BATCH_SIZE files commit
\* and report.  The INSERT opens the connection's transaction and takes the
\* write lock of the database file.
StatUpsert(i) ==
    /\ i \in 1..Len(sessions)
    /\ sessions[i].pc = "stat"
    /\ txOwner \in {0, i}
    /\ LET s == sessions[i]
           d == FileSystem(fs).dirs[s.cur]
           file == d.files[s.file]
           tbl == InsertOrReplace(TableSeenBy(i), file.name, JoinPath(d.path, file.name),
                                  FileType(file.name), file.size, StrfTime(file.mtime))
           n == [Counted(s) EXCEPT !.pc = "files", !.file = @ + 1, !.upserts = @ + 1]
       IN  /\ file.statOk
           /\ IF BatchFull(n)
              THEN /\ rows' = tbl
                   /\ txOwner' = 0
                   /\ txRows' = <<>>
                   /\ SetSession(i, Emit(n, "indexed", GetPercentage(n)))
              ELSE /\ txOwner' = i
                   /\ txRows' = tbl
                   /\ SetSession(i, n)
                   /\ UNCHANGED rows
    /\ UNCHANGED <<fs, indexer, tableExists, search_bar, quit, firstDone>>

\* run, lines 128-131, while another connection holds the write lock: after
\* the busy timeout execute raises sqlite3.OperationalError, which neither
\* except clause (PermissionError, OSError) catches, and run ends with it
UpsertLocked(i) ==
    /\ i \in 1..Len(sessions)
    /\ sessions[i].pc = "stat"
    /\ txOwner \notin {0, i}
    /\ FileSystem(fs).dirs[sessions[i].cur].files[sessions[i].file].statOk
    /\ SetSession(i, [sessions[i] EXCEPT !.pc = "failed", !.exception = "locked"])
    /\ UNCHANGED <<fs, indexer, tableExists, rows, txOwner, txRows, search_bar, quit,
                   firstDone>>

\* run, lines 148-151: the final commit, close, the last progress event and
\* the finished signal
Finish(i) ==
    /\ i \in 1..Len(sessions)
    /\ sessions[i].pc = "finish"
    /\ LET s == sessions[i]
           committed == IF txOwner = i THEN txRows ELSE rows
       IN  /\ rows' = committed
           /\ txOwner' = IF txOwner = i THEN 0 ELSE txOwner
           /\ txRows' = IF txOwner = i THEN <<>> ELSE txRows
           /\ SetSession(i, [Emit(s, "completed", DONE_PERCENT)
                               EXCEPT !.pc = "done", !.finished = "emitted"])
           /\ firstDone' = IF ~s.cancelled /\ ~firstDone.set
                           THEN [set |-> TRUE, rows |-> committed]
                           ELSE firstDone
    /\ UNCHANGED <<fs, indexer, tableExists, search_bar, quit>>

-----------------------------------------------------------------------------
(* SearchBar.                                                              *)

NoStatus == [kind |-> "none", n |-> 0]
NoCall == [called |-> FALSE, text |-> <<>>, read |-> FALSE, error |-> FALSE]

\* KhojDaSearch.search_bar = None
NoSearchBar ==
    [exists |-> FALSE, visible |-> FALSE, text |-> <<>>, results |-> <<>>,
     results_visible |-> FALSE, status |-> NoStatus,
     \* history: the last call of search, read by the properties only
     last |-> NoCall]

\* SearchBar.__init__: the widget, hidden, with its own connection
NewSearchBar == [NoSearchBar EXCEPT !.exists = TRUE]

\* WHERE name LIKE '%' || query || '%'
Matching(tbl, query) ==
    SelectSeq(tbl, LAMBDA r : LikeMatch(<<"%">> \o query \o <<"%">>, r.name))

\* ORDER BY name: ascending under the column's BINARY collation; rows of equal
\* name stay in rowid order
RECURSIVE OrderByName(_)
OrderByName(tbl) ==
    IF Len(tbl) <= 1 THEN tbl
    ELSE LET pivot == tbl[(Len(tbl) + 1) \div 2].name
         IN  OrderByName(SelectSeq(tbl, LAMBDA r : NameLess(r.name, pivot)))
             \o SelectSeq(tbl, LAMBDA r : r.name = pivot)
             \o OrderByName(SelectSeq(tbl, LAMBDA r : NameLess(pivot, r.name)))

\* a query without LIMIT
NoLimit(tbl) == tbl

\* LIMIT 100
Limit(tbl) == SubSeq(tbl, 1, Min(QUERY_LIMIT, Len(tbl)))

\* SELECT name, path, type FROM files WHERE name LIKE ? ORDER BY name LIMIT 100
SelectFiles(tbl, query) ==
    LET r == Limit(OrderByName(Matching(tbl, query)))
    IN  [k \in 1..Len(r) |-> [name |-> r[k].name, path |-> r[k].path, type |-> r[k].type]]

\* search without the test of the empty query
SearchAlways(bar, text) ==
    LET res == SelectFiles(rows, Strip(text))
    IN  [bar EXCEPT !.text = text, !.results = res, !.results_visible = Len(res) > 0,
                    !.last = [called |-> TRUE, text |-> text, read |-> TRUE,
                              error |-> FALSE]]

\* search with  except sqlite3.Error: pass
SearchErrorSilent(bar, text) ==
    LET query == Strip(text)
        cleared == [bar EXCEPT !.text = text, !.results = <<>>]
    IN  IF query = <<>>
        THEN [cleared EXCEPT !.results_visible = FALSE,
                             !.last = [called |-> TRUE, text |-> text, read |-> FALSE,
                                       error |-> FALSE]]
        ELSE IF ~tableExists
        THEN [cleared EXCEPT !.last = [called |-> TRUE, text |-> text, read |-> TRUE,
                                       error |-> TRUE]]
        ELSE LET res == SelectFiles(rows, query)
             IN  [cleared EXCEPT !.results = res,
                                 !.results_visible = Len(res) > 0,
                                 !.status = IF Len(res) > 0
                                            THEN [kind |-> "found", n |-> Len(res)]
                                            ELSE @,
                                 !.last = [called |-> TRUE, text |-> text, read |-> TRUE,
                                           error |-> FALSE]]

\* SearchBar.search, run by textChanged with the new text of the input
Search(bar, text) ==
    LET query == Strip(text)
        cleared == [bar EXCEPT !.text = text, !.results = <<>>]
    IN  IF query = <<>>
        THEN [cleared EXCEPT !.results_visible = FALSE,
                             !.last = [called |-> TRUE, text |-> text, read |-> FALSE,
                                       error |-> FALSE]]
        ELSE IF ~tableExists
        THEN \* sqlite3.OperationalError: no such table: files
             [cleared EXCEPT !.status = [kind |-> "error", n |-> 0],
                             !.results_visible = TRUE,
                             !.last = [called |-> TRUE, text |-> text, read |-> TRUE,
                                       error |-> TRUE]]
        ELSE LET res == SelectFiles(rows, query)
             IN  [cleared EXCEPT !.results = res,
                                 !.results_visible = Len(res) > 0,
                                 !.status = IF Len(res) > 0
                                            THEN [kind |-> "found", n |-> Len(res)]
                                            ELSE @,
                                 !.last = [called |-> TRUE, text |-> text, read |-> TRUE,
                                           error |-> FALSE]]

\* init_search_bar followed by the body of toggle_search_bar
Toggled(bar) ==
    LET b == IF bar.exists THEN bar ELSE NewSearchBar
    IN  IF b.visible
        THEN [b EXCEPT !.visible = FALSE]
        ELSE LET c == IF b.text # <<>> THEN Search(b, <<>>) ELSE b
             IN  [c EXCEPT !.results = <<>>, !.results_visible = FALSE, !.visible = TRUE]

-----------------------------------------------------------------------------
(* KhojDaSearch.                                                           *)

\* the hotkey: toggle_search_bar
toggle_search_bar ==
    /\ ~quit
    /\ search_bar' = Toggled(search_bar)
    /\ UNCHANGED <<fs, sessions, indexer, tableExists, rows, txOwner, txRows, quit,
                   firstDone>>

\* the user changes the text of the visible search input: textChanged -> search
TypeText(text) ==
    /\ ~quit
    /\ search_bar.exists
    /\ search_bar.visible
    /\ text # search_bar.text
    /\ search_bar' = Search(search_bar, text)
    /\ UNCHANGED <<fs, sessions, indexer, tableExists, rows, txOwner, txRows, quit,
                   firstDone>>

\* start_indexing: a new FileIndexer is created and started, whatever the
\* state of the previous one
start_indexing(show_search) ==
    /\ sessions' = Append(sessions, NewIndexer(show_search))
    /\ indexer' = Len(sessions) + 1

\* the tray action "Re-index Files"
reindex_files ==
    /\ ~quit
    /\ Len(sessions) < MaxSessions
    /\ start_indexing(FALSE)
    /\ UNCHANGED <<fs, tableExists, rows, txOwner, txRows, search_bar, quit, firstDone>>

\* the finished signal delivered to the main thread
on_indexing_finished(i) ==
    /\ ~quit
    /\ i \in 1..Len(sessions)
    /\ sessions[i].finished = "emitted"
    /\ sessions' = [sessions EXCEPT ![i].finished = "handled"]
    /\ search_bar' = IF sessions[i].show_search THEN Toggled(search_bar) ELSE search_bar
    /\ UNCHANGED <<fs, indexer, tableExists, rows, txOwner, txRows, quit, firstDone>>

\* stop() assigning an attribute that run never reads
StoppedMisspelt(s) ==
    [s EXCEPT !.atStop = IF s.atStop.pc # "none" THEN @
                         ELSE [pc |-> s.pc, n |-> s.upserts, dirs |-> s.dirsEntered,
                               drives |-> s.drivesEntered, sampled |-> s.sampled]]

\* FileIndexer.stop(), with the place of the run recorded
Stopped(s) ==
    [s EXCEPT !.stopped = TRUE,
              !.atStop = IF s.stopped THEN @
                         ELSE [pc |-> s.pc, n |-> s.upserts, dirs |-> s.dirsEntered,
                               drives |-> s.drivesEntered, sampled |-> s.sampled]]

\* the tray action "Quit"
on_quit ==
    /\ ~quit
    /\ quit' = TRUE
    /\ sessions' = IF indexer # 0 /\ IsRunning(sessions[indexer])
                   THEN [sessions EXCEPT ![indexer] = Stopped(@)]
                   ELSE sessions
    /\ UNCHANGED <<fs, indexer, tableExists, rows, txOwner, txRows, search_bar, firstDone>>

-----------------------------------------------------------------------------
(* Specifications.                                                         *)

RootPath == << <<"/">> >>

\* rows a previous run of the application left: one of a file that has
\* changed since, one of a file that is gone
StaleRows ==
    << Row(1, <<"b", ".", "b">>, JoinPath(RootPath, <<"b", ".", "b">>), <<".", "b">>, 1, 6),
       Row(2, <<"a">>, JoinPath(RootPath, <<"a">>), <<>>, 9, 5) >>

PreviousStores ==
    { [table |-> FALSE, rows |-> <<>>], [table |-> TRUE, rows |-> <<>>],
      [table |-> TRUE, rows |-> StaleRows] }

InitWith(fileSystems, stores) ==
    /\ fs \in fileSystems
    /\ \E st \in stores : tableExists = st.table /\ rows = st.rows
    /\ sessions = <<NewIndexer(TRUE)>>
    /\ indexer = 1
    /\ txOwner = 0
    /\ txRows = <<>>
    /\ search_bar = NoSearchBar
    /\ quit = FALSE
    /\ firstDone = [set |-> FALSE, rows |-> <<>>]

RunStep(i) ==
    \/ RunOpen(i)
    \/ EstimateFiles(i)
    \/ EstimateDirs(i)
    \/ DriveStep(i)
    \/ WalkStep(i)
    \/ FileStep(i)
    \/ StatFail(i)
    \/ StatUpsert(i)
    \/ Finish(i)

\* a step of the thread of session i: run goes on, or ends with an exception
WorkerStep(i) ==
    \/ RunStep(i)
    \/ RunOpenFail(i)
    \/ UpsertLocked(i)

Init == InitWith(SmallFileSystems, PreviousStores)

\* the sessions of the application, started at its start and by the tray
\* menu.  No session reads the search bar, so the hotkey and the typing of
\* the user are left to SpecSearch.
Next ==
    \/ \E i \in 1..MaxSessions : RunStep(i)
    \/ \E i \in 1..MaxSessions : RunOpenFail(i)
    \/ \E i \in 1..MaxSessions : UpsertLocked(i)
    \/ \E i \in 1..MaxSessions : on_indexing_finished(i)
    \/ reindex_files
    \/ on_quit

Spec == Init /\ [][Next]_vars

\* the texts typed while a session runs
SpecTexts == { <<"a">>, <<" ">> }

\* the session of the application start, with the search bar opened by the
\* hotkey and used while the session runs
NextSearch ==
    \/ RunStep(1)
    \/ RunOpenFail(1)
    \/ on_indexing_finished(1)
    \/ on_quit
    \/ toggle_search_bar
    \/ \E text \in SpecTexts : TypeText(text)

SpecSearch == Init /\ [][NextSearch]_vars

\* one session over the large filesystem, which the user may stop
InitLarge ==
    InitWith({"large"}, {[table |-> FALSE, rows |-> <<>>], [table |-> TRUE, rows |-> StaleRows]})

NextLarge ==
    \/ RunStep(1)
    \/ on_quit

SpecLarge == InitLarge /\ [][NextLarge]_vars

\* one session over filesystems that differ in what the estimation samples:
\* no directory, a directory with nothing in it, few files, many files per
\* directory
EstimateFileSystems == SmallFileSystems \cup {"empty", "wide"}

InitEstimate == InitWith(EstimateFileSystems, {[table |-> FALSE, rows |-> <<>>]})

NextEstimate ==
    \/ RunStep(1)
    \/ on_quit

SpecEstimate == InitEstimate /\ [][NextEstimate]_vars

\* the characters of the texts typed into the search input
FragChars == {" ", "%", "_", "a"}

Texts == UNION { [1..n -> FragChars] : n \in 0..MaxFragLen }

\* rows of a previous run whose names hold wildcard characters, differ in
\* case only, or are equal in different directories
CraftedRows ==
    << Row(1, <<"b", "_", "a">>, JoinPath(RootPath, <<"b", "_", "a">>), <<>>, 1, 1),
       Row(2, <<"a", "B">>, JoinPath(RootPath, <<"a", "B">>), <<>>, 2, 2),
       Row(3, <<"A">>, JoinPath(RootPath, <<"A">>), <<>>, 3, 3),
       Row(4, <<"b">>, JoinPath(JoinPath(RootPath, <<"a">>), <<"b">>), <<>>, 4, 4),
       Row(5, <<"a", "%">>, JoinPath(RootPath, <<"a", "%">>), <<>>, 5, 5),
       Row(7, <<"A">>, JoinPath(JoinPath(RootPath, <<"_">>), <<"A">>), <<>>, 6, 6) >>

\* n rows with generated names, in an order that is not the order of names
GeneratedRows(n) ==
    [i \in 1..n |-> Row(i, DigitName(i, 4), JoinPath(RootPath, DigitName(i, 4)), <<>>, i, i)]

QueryStores ==
    { [table |-> TRUE, rows |-> SubSeq(CraftedRows, 1, k)] : k \in 0..Len(CraftedRows) }
    \cup { [table |-> TRUE, rows |-> GeneratedRows(n)] : n \in (MaxRows - 2)..MaxRows }

\* queries against the store a previous run left, no session being scheduled
InitQuery == InitWith({"none"}, QueryStores)

NextQuery ==
    \/ toggle_search_bar
    \/ \E text \in Texts : TypeText(text)

SpecQuery == InitQuery /\ [][NextQuery]_vars

-----------------------------------------------------------------------------
(* Properties.                                                             *)

SessionIds == 1..Len(sessions)

Active(s) == Estimating(s) \/ Walking(s)

\* a session that ran to its end without observing stop()
Completed(s) == s.pc = "done" /\ ~s.cancelled

\* C1: at most one indexer session is Estimating or Walking at a time.
C1_AtMostOneActive ==
    Cardinality({i \in SessionIds : Active(sessions[i])}) <= 1

\* C2: a session that ended because it observed stop() has emitted no
\* progress event with percentage 100.
C2_NoHundredWhenCancelled ==
    \A i \in SessionIds :
        sessions[i].cancelled =>
            \A k \in 1..Len(sessions[i].events) : sessions[i].events[k].pct # DONE_PERCENT

\* C3: every progress event a session emits before its terminal event (while
\* Estimating or Walking) carries a percentage in 0..99, whatever the ratio of
\* files_processed to total_files_estimated.
C3_RunningPercentInRange ==
    \A i \in SessionIds :
        \A k \in 1..Len(sessions[i].events) :
            sessions[i].events[k].kind # "completed" =>
                sessions[i].events[k].pct \in 0..99

\* a Walking session has reported more files than it had estimated
C3_Witness ==
    \E i \in SessionIds :
        /\ Walking(sessions[i])
        /\ \E k \in 1..Len(sessions[i].events) :
              /\ sessions[i].events[k].n > sessions[i].total_files_estimated
              /\ sessions[i].events[k].pct = 99

\* C4: within a session, files_processed and the percentage of successive
\* progress events, the terminal one included, never decrease.
C4_MonotonicProgress ==
    \A i \in SessionIds :
        \A j, k \in 1..Len(sessions[i].events) :
            j < k => /\ sessions[i].events[j].n <= sessions[i].events[k].n
                     /\ sessions[i].events[j].pct <= sessions[i].events[k].pct

\* a completed session whose events show the estimation, a root, batches with
\* growing counts and percentages, and the terminal event
C4_Witness ==
    \E i \in SessionIds :
        LET ev == sessions[i].events
        IN  /\ Completed(sessions[i])
            /\ \E a, b, c, d \in 1..Len(ev) :
                  /\ a < b /\ b < c /\ c < d /\ d < Len(ev)
                  /\ ev[a].kind = "estimated" /\ ev[b].kind = "indexing"
                  /\ ev[c].kind = "indexed" /\ ev[d].kind = "indexed"
                  /\ ev[c].n < ev[d].n /\ ev[c].pct < ev[d].pct
                  /\ ev[Len(ev)].kind = "completed"

UniquePaths(tbl) == \A j, k \in 1..Len(tbl) : j < k => tbl[j].path # tbl[k].path

\* C5: no two rows of files have the same path, in the committed table and in
\* the table an open transaction sees, whatever sessions have upserted.
C5_UniquePath == UniquePaths(rows) /\ UniquePaths(txRows)

\* two sessions have run to their end and upserted more rows than the table
\* holds: upserts replaced rows
C5_Witness ==
    \E i, j \in SessionIds :
        /\ i # j /\ txOwner = 0
        /\ sessions[i].pc = "done" /\ sessions[j].pc = "done"
        /\ sessions[i].upserts >= 2 /\ sessions[j].upserts >= 2
        /\ Len(rows) < sessions[i].upserts + sessions[j].upserts

FieldSet(tbl) == {Fields(tbl[k]) : k \in 1..Len(tbl)}

\* C6: once two sessions have run to completion, the table holds one row per
\* path and the same name, path, type, size and modified_date values as when
\* the first of them completed.
C6_UpsertIdempotent ==
    Cardinality({i \in SessionIds : Completed(sessions[i])}) >= 2 =>
        /\ UniquePaths(rows)
        /\ Len(rows) = Len(firstDone.rows)
        /\ FieldSet(rows) = FieldSet(firstDone.rows)

\* two completed sessions that each upserted files, over a store that already
\* held rows
C6_Witness ==
    /\ Cardinality({i \in SessionIds : Completed(sessions[i]) /\ sessions[i].upserts >= 2}) >= 2
    /\ Len(rows) > 2
    /\ firstDone.set

\* C7: after stop() is called on a Walking session, the session upserts at
\* most the file whose stat was in progress, passes the check of no further
\* directory and no further root, and has ended after five more steps.
C7_StopLatency ==
    \A i \in SessionIds :
        LET s == sessions[i]
        IN  s.atStop.pc \in {"drives", "walk", "files", "stat"} =>
                /\ s.upserts - s.atStop.n <= (IF s.atStop.pc = "stat" THEN 1 ELSE 0)
                /\ s.dirsEntered = s.atStop.dirs
                /\ s.drivesEntered = s.atStop.drives
                /\ s.sinceStop <= 5
                /\ (s.sinceStop = 5 => s.pc \in {"done", "failed"})

\* a session stopped during a stat has upserted that file, observed the stop
\* and ended
C7_Witness ==
    \E i \in SessionIds :
        /\ sessions[i].atStop.pc = "stat"
        /\ sessions[i].upserts = sessions[i].atStop.n + 1
        /\ sessions[i].cancelled
        /\ sessions[i].pc = "done"

\* name contains fragment, compared after case folding
Contains(name, fragment) ==
    \E p \in 1..(Len(name) - Len(fragment) + 1) :
        LowerStr(SubSeq(name, p, p + Len(fragment) - 1)) = LowerStr(fragment)

Shown(r) == [name |-> r.name, path |-> r.path, type |-> r.type]

\* the last call of search read the store and the read succeeded
QueryAnswered == search_bar.last.called /\ search_bar.last.read /\ ~search_bar.last.error

\* C8: a query with fewer than 100 matches returns exactly the rows whose name
\* contains the fragment as a substring, compared case-insensitively, for
\* every character of the fragment.
C8_ExactSubstringMatch ==
    QueryAnswered =>
        LET expected == {k \in 1..Len(rows) : Contains(rows[k].name, Strip(search_bar.last.text))}
        IN  Cardinality(expected) < QUERY_LIMIT =>
                /\ Len(search_bar.results) = Cardinality(expected)
                /\ {search_bar.results[k] : k \in 1..Len(search_bar.results)}
                   = {Shown(rows[k]) : k \in expected}

C10_EmptyQueryNoRead ==
    (search_bar.last.called /\ Strip(search_bar.last.text) = <<>>) =>
        /\ ~search_bar.last.read
        /\ ~search_bar.last.error
        /\ search_bar.results = <<>>
        /\ ~search_bar.results_visible

\* a search with a text of blanks only, over a store that holds rows
C10_Witness ==
    /\ search_bar.last.called
    /\ search_bar.last.text # <<>>
    /\ Strip(search_bar.last.text) = <<>>
    /\ Len(rows) > 0


-----------------------------------------------------------------------------
(* The files a walk is expected to reach, stated from the filesystem.      *)

HiddenName(name) == Len(name) > 0 /\ name[1] = "."
SystemName(name) == Len(name) > 0 /\ name[1] = "$"

Range(seq) == {seq[k] : k \in 1..Len(seq)}

\* the directories below the roots with no hidden or system directory and no
\* unreadable directory on the way down
RECURSIVE ReachedFrom(_, _, _)
ReachedFrom(f, reached, n) ==
    IF n = 0 THEN reached
    ELSE ReachedFrom(f,
             reached \cup {d \in 1..Len(f.dirs) :
                 /\ f.dirs[d].readable
                 /\ ~HiddenName(f.dirs[d].name) /\ ~SystemName(f.dirs[d].name)
                 /\ \E p \in reached : d \in Range(f.dirs[p].dirs)},
             n - 1)

ReachedDirs(f) ==
    ReachedFrom(f, {d \in Range(f.drives) : f.dirs[d].readable}, Len(f.dirs))

\* the paths of the files of those directories that are not hidden, by the
\* outcome of their stat
PathsWithStat(f, ok) ==
    UNION { {JoinPath(f.dirs[d].path, f.dirs[d].files[k].name) :
                k \in {j \in 1..Len(f.dirs[d].files) :
                          /\ ~HiddenName(f.dirs[d].files[j].name)
                          /\ f.dirs[d].files[j].statOk = ok}} : d \in ReachedDirs(f) }

PathsOf(tbl) == {tbl[k].path : k \in 1..Len(tbl)}

\* C11: a session that ran to completion has upserted and counted every
\* non-hidden file of the reached directories whose stat succeeds, and has
\* neither upserted nor counted a file whose stat fails.
C11_SkipAndContinue ==
    \A i \in SessionIds :
        Completed(sessions[i]) =>
            LET f == FileSystem(fs)
            IN  /\ sessions[i].upserts = Cardinality(PathsWithStat(f, TRUE))
                /\ sessions[i].files_processed = Cardinality(PathsWithStat(f, TRUE))
                /\ PathsWithStat(f, TRUE) \subseteq PathsOf(rows)
                /\ PathsWithStat(f, FALSE) \cap PathsOf(rows) = {}

\* a completed session over a filesystem with a file whose stat fails and a
\* readable file listed after it in the same directory
C11_Witness ==
    \E i \in SessionIds :
        LET f == FileSystem(fs)
        IN  /\ Completed(sessions[i])
            /\ \E d \in ReachedDirs(f) : \E j, k \in 1..Len(f.dirs[d].files) :
                  /\ j < k
                  /\ ~f.dirs[d].files[j].statOk /\ ~HiddenName(f.dirs[d].files[j].name)
                  /\ f.dirs[d].files[k].statOk
                  /\ JoinPath(f.dirs[d].path, f.dirs[d].files[k].name) \in PathsOf(rows)


\* C12: a session whose store could not be opened has walked and sampled
\* nothing, and its failure has reached the caller: the session has delivered
\* a signal that tells it from a session still running.
C12_OpenFailureSurfaced ==
    \A i \in SessionIds :
        sessions[i].exception = "connect" =>
            /\ sessions[i].sampled = 0
            /\ sessions[i].dirsEntered = 0
            /\ sessions[i].upserts = 0
            /\ (sessions[i].events # <<>> \/ sessions[i].finished # "no")


\* C13: a search whose read of the store failed shows the error status
\* ("Search error") and no result row.
C13_ReadFailureReported ==
    (search_bar.last.called /\ search_bar.last.error) =>
        /\ search_bar.status.kind = "error"
        /\ search_bar.results = <<>>
        /\ search_bar.results_visible

\* a search with a query that is not empty, run before any session has
\* created the table
C13_Witness ==
    /\ search_bar.last.called
    /\ search_bar.last.read
    /\ search_bar.last.error
    /\ Strip(search_bar.last.text) # <<>>
    /\ ~tableExists


\* the rows of the committed table, which every other connection reads (the
\* one of the search bar included), that no previous run left
RowsOfThisRun == SelectSeq(rows, LAMBDA r : r \notin Range(StaleRows))

\* C14: while a session has not made its final commit, the rows it has
\* written that another connection can read are those of whole batches: their
\* number is a multiple of the batch size.
C14_WholeBatchesVisible ==
    (\A i \in SessionIds : sessions[i].pc # "done") =>
        Len(RowsOfThisRun) % BATCH_SIZE = 0

\* a Walking session has committed a batch and upserted part of the next one:
\* readers see the rows of the previous run and the committed batch only
C14_Witness ==
    \E i \in SessionIds :
        /\ Walking(sessions[i])
        /\ txOwner = i
        /\ Len(RowsOfThisRun) = BATCH_SIZE
        /\ Len(txRows) > Len(rows)
        /\ Range(StaleRows) \subseteq Range(rows)


\* C15: every session whose run has ended has emitted the finished signal;
\* when the signal has been emitted the session holds no open transaction,
\* its last progress event is the terminal one and it is no longer running.
C15_FinalCommitThenFinished ==
    \A i \in SessionIds :
        LET s == sessions[i]
        IN  /\ ~IsRunning(s) => s.finished # "no"
            /\ s.finished # "no" =>
                  /\ txOwner # i
                  /\ s.pc = "done"
                  /\ s.events[Len(s.events)].kind = "completed"
                  /\ Cardinality({k \in 1..Len(s.events) : s.events[k].kind = "completed"}) = 1


\* C16: no step removes a path from the committed table: the set of paths of
\* the store never shrinks, whatever sessions run.
C16_PathsNeverShrink == [][PathsOf(rows) \subseteq PathsOf(rows')]_vars

\* the file of a stored row is no longer in the filesystem
Gone(f, path) ==
    \A d \in 1..Len(f.dirs) : \A k \in 1..Len(f.dirs[d].files) :
        JoinPath(f.dirs[d].path, f.dirs[d].files[k].name) # path

\* two sessions have completed and upserted files, and the store still holds
\* the row of a previous run whose file is gone
C16_Witness ==
    /\ Cardinality({i \in SessionIds : Completed(sessions[i]) /\ sessions[i].upserts > 0}) >= 2
    /\ \E k \in 1..Len(rows) : rows[k] \in Range(StaleRows) /\ Gone(FileSystem(fs), rows[k].path)


\* C17: when the table files exists, the step of a session that connects and
\* creates the schema leaves the table in place and every row as it was.
C17_EnsureSchemaIdempotent ==
    [][\A i \in SessionIds :
          (tableExists /\ sessions[i].pc = "start" /\ sessions'[i].pc = "estimate_files")
              => (tableExists' /\ rows' = rows)]_vars

\* a later session has passed its schema creation over the table that an
\* earlier, completed session filled
C17_Witness ==
    \E i, j \in SessionIds :
        /\ i < j
        /\ Completed(sessions[i]) /\ sessions[i].upserts > 0
        /\ sessions[j].pc = "estimate_files" /\ sessions[j].sampled = 0
        /\ Len(rows) >= sessions[i].upserts


\* C18: a session on which stop() was called while Estimating samples no
\* further directory.
C18_StopHonouredInEstimating ==
    \A i \in SessionIds :
        sessions[i].atStop.pc \in {"estimate_files", "estimate_dirs"} =>
            sessions[i].sampled = sessions[i].atStop.sampled


\* no directory on the way from the root to the file is hidden or a system
\* directory, and the file is not hidden
VisiblePath(path) ==
    /\ ~HiddenName(path[Len(path)])
    /\ \A k \in 2..(Len(path) - 1) : ~HiddenName(path[k]) /\ ~SystemName(path[k])

\* the files that are not hidden of the directories a walk reaches
VisibleFiles(f) == PathsWithStat(f, TRUE) \cup PathsWithStat(f, FALSE)

\* C19: no row is upserted for a hidden file or for a file below a hidden or
\* system directory; a session visits and queues no such directory, counts no
\* more files than the visible ones, and its estimation samples and counts
\* visible directories and files only.
C19_HiddenFiltered ==
    LET f == FileSystem(fs)
        reached == ReachedDirs(f)
        visible == Cardinality(VisibleFiles(f))
    IN  /\ \A k \in 1..Len(rows) : VisiblePath(rows[k].path)
        /\ \A k \in 1..Len(txRows) : VisiblePath(txRows[k].path)
        /\ \A i \in SessionIds :
              LET s == sessions[i]
              IN  /\ \A d \in Range(s.todo) :
                        \/ d \in Range(f.drives)
                        \/ ~HiddenName(f.dirs[d].name) /\ ~SystemName(f.dirs[d].name)
                  /\ s.pc \in {"files", "stat"} => s.cur \in reached
                  /\ s.pc = "stat" => ~HiddenName(f.dirs[s.cur].files[s.file].name)
                  /\ s.files_processed <= visible
                  /\ s.sample_size <= Cardinality(reached)
                  /\ s.file_count <= visible
                  /\ s.dir_sample_size <= Cardinality(reached)
                  /\ s.dir_count < Max(1, Cardinality(reached))

\* a session has completed over a filesystem with a hidden file in a visited
\* directory and a file in a hidden directory, and has upserted files
C19_Witness ==
    \E i \in SessionIds :
        LET f == FileSystem(fs)
        IN  /\ Completed(sessions[i])
            /\ sessions[i].upserts > 0
            /\ \E d \in ReachedDirs(f) : \E k \in 1..Len(f.dirs[d].files) :
                  HiddenName(f.dirs[d].files[k].name)
            /\ \E d \in 1..Len(f.dirs) :
                  /\ HiddenName(f.dirs[d].name)
                  /\ f.dirs[d].files # <<>>


\* C20: once a session has left Estimating, no step changes its
\* total_files_estimated: not an upsert, a commit, a progress event, stop()
\* or the end of the run.
C20_EstimateFixed ==
    [][\A i \in SessionIds :
          sessions[i].pc \notin {"start", "estimate_files", "estimate_dirs"}
              => sessions'[i].total_files_estimated = sessions[i].total_files_estimated]_vars

\* a session stopped while Walking has ended with more files counted than
\* the estimate it made, which is still the one it announced
C20_Witness ==
    \E i \in SessionIds :
        LET s == sessions[i]
        IN  /\ s.pc = "done"
            /\ s.atStop.pc \in {"drives", "walk", "files", "stat"}
            /\ s.files_processed > s.total_files_estimated
            /\ s.total_files_estimated = MIN_TOTAL_FILES
            /\ \E k \in 1..Len(s.events) :
                  s.events[k].kind = "indexed" /\ s.events[k].n >= s.total_files_estimated


\* C21: whenever a session is Walking (and until it has ended) its
\* total_files_estimated is at least 1000, whatever the estimation sampled.
C21_EstimateFloor ==
    \A i \in SessionIds :
        (Walking(sessions[i]) \/ sessions[i].pc \in {"finish", "done"}) =>
            sessions[i].total_files_estimated >= MIN_TOTAL_FILES

\* a Walking session whose estimation sampled a directory and found no file
\* and no subdirectory
C21_Witness ==
    \E i \in SessionIds :
        LET f == FileSystem(fs)
        IN  /\ Walking(sessions[i])
            /\ ReachedDirs(f) # {}
            /\ VisibleFiles(f) = {}
            /\ \A d \in ReachedDirs(f) : f.dirs[d].dirs = <<>>
            /\ sessions[i].total_files_estimated = MIN_TOTAL_FILES


\* the steps a session can take after stop(): the connect, the two sampling
\* passes with the passage from root to root, and the unwinding of the walk
StopBound(f) == FILE_SAMPLE_DIRS + DIR_SAMPLE_DIRS + 2 * Len(f.drives) + 5

\* C22: a session whose thread can take no further step has emitted the
\* terminal signal, and a session on which stop() was called takes a number
\* of further steps bounded by the sampling limits, not by the walk.
C22_Terminates ==
    \A i \in SessionIds :
        /\ ~ENABLED WorkerStep(i) => sessions[i].finished # "no"
        /\ sessions[i].sinceStop <= StopBound(FileSystem(fs))


\* C23: from the start of Walking on, files_processed of a session is the
\* number of upserts it has executed and the number of rows it has written as
\* its own connection sees them, and every periodic progress event reports a
\* multiple of the batch size that is no more than the rows already committed.
C23_CountIsUpserts ==
    \A i \in SessionIds :
        LET s == sessions[i]
        IN  (Walking(s) \/ s.pc \in {"finish", "done"}) =>
                /\ s.files_processed = s.upserts
                /\ s.files_processed
                   = Len(SelectSeq(TableSeenBy(i), LAMBDA r : r \notin Range(StaleRows)))
                /\ \A k \in 1..Len(s.events) :
                      s.events[k].kind = "indexed" =>
                          /\ s.events[k].n % BATCH_SIZE = 0
                          /\ s.events[k].n <= Len(RowsOfThisRun)

\* a completed session that met a hidden file and a file whose stat fails,
\* counted every other file and reported batches on the way
C23_Witness ==
    \E i \in SessionIds :
        LET s == sessions[i]
            f == FileSystem(fs)
        IN  /\ Completed(s)
            /\ s.files_processed = Cardinality(PathsWithStat(f, TRUE))
            /\ s.files_processed > BATCH_SIZE
            /\ PathsWithStat(f, FALSE) # {}
            /\ \E d \in ReachedDirs(f) : \E k \in 1..Len(f.dirs[d].files) :
                  HiddenName(f.dirs[d].files[k].name)
            /\ \E k \in 1..Len(s.events) : s.events[k].kind = "indexed"


\* stop() was called before the session entered its first root
StoppedBeforeWalking(s) ==
    \/ s.atStop.pc \in {"start", "estimate_files", "estimate_dirs"}
    \/ s.atStop.pc = "drives" /\ s.atStop.drives = 0

\* C24: a session on which stop() was called before it entered its first
\* root enters no root and no directory, upserts no file, holds no
\* transaction, and its files_processed stays 0.
C24_StopBeforeWalkingWritesNothing ==
    \A i \in SessionIds :
        StoppedBeforeWalking(sessions[i]) =>
            /\ sessions[i].upserts = 0
            /\ sessions[i].files_processed = 0
            /\ sessions[i].drivesEntered = 0
            /\ sessions[i].dirsEntered = 0
            /\ txOwner # i

\* a session stopped while Estimating has ended over a filesystem that holds
\* files to index, and the committed table holds no row of this run
C24_Witness ==
    \E i \in SessionIds :
        /\ sessions[i].atStop.pc \in {"estimate_files", "estimate_dirs"}
        /\ sessions[i].pc = "done"
        /\ sessions[i].cancelled
        /\ PathsWithStat(FileSystem(fs), TRUE) # {}
        /\ RowsOfThisRun = <<>>


\* C25: once on_quit has run, every session still running has been asked to
\* stop.
C25_QuitStopsEverySession ==
    quit => \A i \in SessionIds : IsRunning(sessions[i]) => sessions[i].stopped

\* C26: no search that read the store failed: the table files exists before
\* any query with a text that is not blank reaches the store.
C26_SchemaBeforeQuery ==
    (search_bar.last.called /\ search_bar.last.read) => ~search_bar.last.error

=============================================================================
